---- MODULE Spec2Model ----
(***************************************************************************)
(* Model of the exercism command-line client: the local save engine        *)
(* (handlers.Item.Save and SaveAssignment), the submit command with its    *)
(* path resolution and test-file check, and the submit / unsubmit HTTP     *)
(* exchanges.                                                              *)
(*                                                                         *)
(* A path below the assignment directory is the sequence of its            *)
(* components: <<>> is {dir}/{track}/{slug} itself, <<"a","b">> is a/b.    *)
(* Strings that the code inspects character by character (file names,      *)
(* absolute paths, test suffixes) are sequences of one-character strings.  *)
(***************************************************************************)
EXTENDS Integers, Sequences, FiniteSets, TLC

\* disk   : the files and directories below the assignment's directory
\* server : the file mapping of the assignment the server hands out
\* last   : the outcome of the command that ran last
\* nruns  : the number of commands run so far
VARIABLES disk, server, last, nruns

vars == <<disk, server, last, nruns>>

\* ---------------------------------------------------------------- bounds
\* Number of commands run one after the other.
MaxRuns == 2

\* Largest number of entries in an assignment's file mapping.
MaxFiles == 3

\* ------------------------------------------------------------ file system
Root == <<>>

\* Keys of Problem.Files / Assignment.Files the server may send.
Names == {<<"a">>, <<"a", "b">>, <<"c">>}

Paths == {Root} \cup Names

Parent(p) == SubSeq(p, 1, Len(p) - 1)

\* Content of a file: "L" a local edit, "R" the remote text, "T" the
\* truncated remains of a write that failed half way.
Remote == "R"

FileContents == {"L", "R", "T"}

NodeStates == {"-", "dir"} \cup FileContents

IsFile(n) == n \in FileContents

\* A disk is well formed when every entry that exists lies in a directory.
WellFormed(fs) ==
  \A p \in Names : fs[p] # "-" => fs[Parent(p)] = "dir"

Disks == {fs \in [Paths -> NodeStates] : WellFormed(fs)}

\* ------------------------------------------------------------ environment
\* At most one path misbehaves during a save:
\*   "mkdir" : creating the directory p fails (EACCES on its parent)
\*   "stat"  : os.Stat(p) fails with an error other than ENOENT
\*   "open"  : ioutil.WriteFile(p) fails before the file is created
\*   "trunc" : ioutil.WriteFile(p) creates the file and then fails
NoFault == [p |-> Root, k |-> "none"]

\* The directories above the files of a mapping.
RECURSIVE Above(_)
Above(p) == IF p = Root THEN {} ELSE {Parent(p)} \cup Above(Parent(p))

\* The failures a save of the files keys can meet.
Faults(keys) ==
  {NoFault}
    \cup {[p |-> d, k |-> "mkdir"] : d \in UNION {Above(n) : n \in keys}}
    \cup {[p |-> n, k |-> "stat"] : n \in keys \cup {Root}}
    \cup {[p |-> n, k |-> k] : n \in keys, k \in {"open", "trunc"}}

Hits(fault, p, k) == fault.k = k /\ fault.p = p

\* os.MkdirAll(d, 0755): an existing directory is fine, an existing file is
\* ENOTDIR, otherwise the parents are made first and then d itself;
\* directories made before a failure stay.
RECURSIVE MkdirAll(_, _, _)
MkdirAll(fs, d, fault) ==
  IF fs[d] = "dir" THEN [ok |-> TRUE, fs |-> fs]
  ELSE IF fs[d] # "-" THEN [ok |-> FALSE, fs |-> fs]
  ELSE LET par == IF d = Root THEN [ok |-> TRUE, fs |-> fs]
                  ELSE MkdirAll(fs, Parent(d), fault)
       IN  IF ~par.ok THEN par
           ELSE IF Hits(fault, d, "mkdir") THEN [ok |-> FALSE, fs |-> par.fs]
           ELSE [ok |-> TRUE, fs |-> [par.fs EXCEPT ![d] = "dir"]]

\* A variant of Stat that takes every error for "does not exist".
StatAnyErrorIsNotExist(fs, p, fault) ==
  IF Hits(fault, p, "stat") THEN "notexist"
  ELSE IF fs[p] # "-" THEN "ok"
  ELSE "notexist"

\* The three results of os.Stat followed by os.IsNotExist.
Stat(fs, p, fault) ==
  IF Hits(fault, p, "stat") THEN "err"
  ELSE IF fs[p] # "-" THEN "ok"
  ELSE IF p # Root /\ fs[Parent(p)] \notin {"-", "dir"} THEN "err"
  ELSE "notexist"

\* ioutil.WriteFile(p, text, 0644): create or truncate, then write.
WriteFile(fs, p, text, fault) ==
  IF Hits(fault, p, "open") THEN [ok |-> FALSE, fs |-> fs]
  ELSE IF fs[Parent(p)] # "dir" \/ fs[p] = "dir" THEN [ok |-> FALSE, fs |-> fs]
  ELSE IF Hits(fault, p, "trunc")
       THEN [ok |-> FALSE, fs |-> [fs EXCEPT ![p] = "T"]]
  ELSE [ok |-> TRUE, fs |-> [fs EXCEPT ![p] = text]]

\* --------------------------------------------------------------- the loop
\* The running state of one save: the disk, the Item's two flags, the error
\* returned ("" while none), the position in the iteration at which the
\* save returned, the files written, the files skipped because they exist,
\* the paths whose existence check failed, and the files at which creating
\* the directory or writing the file failed.
Start(fs, isNew) ==
  [fs |-> fs, isNew |-> isNew, isUpdated |-> FALSE, err |-> "", at |-> 0,
   written |-> {}, skipped |-> {}, statFailed |-> {}, failed |-> {}]

\* A variant of StepItem that sets isUpdated for every file it meets.
StepItemAlwaysUpdated(st, i, name, text, fault) ==
  LET mk == MkdirAll(st.fs, Parent(name), fault)
      s  == Stat(mk.fs, name, fault)
      w  == WriteFile(mk.fs, name, text, fault)
  IN  IF ~mk.ok
      THEN [st EXCEPT !.fs = mk.fs, !.err = "mkdir", !.at = i,
                      !.failed = @ \cup {name}]
      ELSE IF s = "ok"
      THEN [st EXCEPT !.fs = mk.fs, !.isUpdated = TRUE,
                      !.skipped = @ \cup {name}]
      ELSE IF s = "err"
      THEN [st EXCEPT !.fs = mk.fs, !.err = "stat", !.at = i,
                      !.statFailed = @ \cup {name}]
      ELSE IF ~w.ok
      THEN [st EXCEPT !.fs = w.fs, !.isUpdated = TRUE, !.err = "write",
                      !.at = i, !.failed = @ \cup {name}]
      ELSE [st EXCEPT !.fs = w.fs, !.isUpdated = TRUE,
                      !.written = @ \cup {name}]

\* One iteration of the loop of Item.Save.
StepItem(st, i, name, text, fault) ==
  LET mk == MkdirAll(st.fs, Parent(name), fault)
      s  == Stat(mk.fs, name, fault)
      w  == WriteFile(mk.fs, name, text, fault)
      up == IF ~st.isNew THEN TRUE ELSE st.isUpdated
  IN  IF ~mk.ok
      THEN [st EXCEPT !.fs = mk.fs, !.err = "mkdir", !.at = i,
                      !.failed = @ \cup {name}]
      ELSE IF s = "ok"
      THEN [st EXCEPT !.fs = mk.fs, !.skipped = @ \cup {name}]
      ELSE IF s = "err"
      THEN [st EXCEPT !.fs = mk.fs, !.err = "stat", !.at = i,
                      !.statFailed = @ \cup {name}]
      ELSE IF ~w.ok
      THEN [st EXCEPT !.fs = w.fs, !.isUpdated = up, !.err = "write",
                      !.at = i, !.failed = @ \cup {name}]
      ELSE [st EXCEPT !.fs = w.fs, !.isUpdated = up,
                      !.written = @ \cup {name}]

\* A variant of StepAssignment that goes on after a failed write.
StepAssignmentDropsWriteError(st, i, name, text, fault) ==
  LET mk == MkdirAll(st.fs, Parent(name), fault)
      s  == Stat(mk.fs, name, fault)
      w  == WriteFile(mk.fs, name, text, fault)
  IN  IF ~mk.ok
      THEN [st EXCEPT !.fs = mk.fs, !.err = "mkdir", !.at = i,
                      !.failed = @ \cup {name}]
      ELSE IF s = "ok"
      THEN [st EXCEPT !.fs = mk.fs, !.skipped = @ \cup {name}]
      ELSE IF s = "err"
      THEN [st EXCEPT !.fs = mk.fs, !.statFailed = @ \cup {name}]
      ELSE IF ~w.ok
      THEN [st EXCEPT !.fs = w.fs, !.failed = @ \cup {name}]
      ELSE [st EXCEPT !.fs = w.fs, !.written = @ \cup {name}]

\* A variant of StepAssignment that returns nil at the first existing file.
StepAssignmentReturnsOnSkip(st, i, name, text, fault) ==
  LET mk == MkdirAll(st.fs, Parent(name), fault)
      s  == Stat(mk.fs, name, fault)
      w  == WriteFile(mk.fs, name, text, fault)
  IN  IF ~mk.ok
      THEN [st EXCEPT !.fs = mk.fs, !.err = "mkdir", !.at = i,
                      !.failed = @ \cup {name}]
      ELSE IF s = "ok"
      THEN [st EXCEPT !.fs = mk.fs, !.skipped = @ \cup {name},
                      !.at = i]
      ELSE IF s = "err"
      THEN [st EXCEPT !.fs = mk.fs, !.statFailed = @ \cup {name}]
      ELSE IF ~w.ok
      THEN [st EXCEPT !.fs = w.fs, !.err = "write", !.at = i,
                      !.failed = @ \cup {name}]
      ELSE [st EXCEPT !.fs = w.fs, !.written = @ \cup {name}]

\* One iteration of the loop of SaveAssignment: an existence check that
\* fails for another reason than ENOENT falls through to the next file.
StepAssignment(st, i, name, text, fault) ==
  LET mk == MkdirAll(st.fs, Parent(name), fault)
      s  == Stat(mk.fs, name, fault)
      w  == WriteFile(mk.fs, name, text, fault)
  IN  IF ~mk.ok
      THEN [st EXCEPT !.fs = mk.fs, !.err = "mkdir", !.at = i,
                      !.failed = @ \cup {name}]
      ELSE IF s = "ok"
      THEN [st EXCEPT !.fs = mk.fs, !.skipped = @ \cup {name}]
      ELSE IF s = "err"
      THEN [st EXCEPT !.fs = mk.fs, !.statFailed = @ \cup {name}]
      ELSE IF ~w.ok
      THEN [st EXCEPT !.fs = w.fs, !.err = "write", !.at = i,
                      !.failed = @ \cup {name}]
      ELSE [st EXCEPT !.fs = w.fs, !.written = @ \cup {name}]

\* "for name, text := range files": ord is the order in which the runtime
\* hands out the keys of the map; a return inside the body (at # 0) leaves
\* the loop.
RECURSIVE ItemLoop(_, _, _, _, _)
ItemLoop(st, ord, i, files, fault) ==
  IF i > Len(ord) \/ st.at # 0 THEN st
  ELSE ItemLoop(StepItem(st, i, ord[i], files[ord[i]], fault),
                ord, i + 1, files, fault)

RECURSIVE AssignmentLoop(_, _, _, _, _)
AssignmentLoop(st, ord, i, files, fault) ==
  IF i > Len(ord) \/ st.at # 0 THEN st
  ELSE AssignmentLoop(StepAssignment(st, i, ord[i], files[ord[i]], fault),
                      ord, i + 1, files, fault)

\* A variant of ItemSave that sets isNew when the directory exists.
ItemSaveInvertedCheck(fs, files, ord, fault) ==
  LET s == Stat(fs, Root, fault)
  IN  IF s = "err"
      THEN [Start(fs, FALSE) EXCEPT !.err = "stat", !.statFailed = {Root}]
      ELSE ItemLoop(Start(fs, s = "ok"), ord, 1, files, fault)

\* Item.Save on an Item whose two flags have their zero value: an Item is
\* built for one save and its flags are only ever set by Save.
ItemSave(fs, files, ord, fault) ==
  LET s == Stat(fs, Root, fault)
  IN  IF s = "err"
      THEN [Start(fs, FALSE) EXCEPT !.err = "stat", !.statFailed = {Root}]
      ELSE ItemLoop(Start(fs, s = "notexist"), ord, 1, files, fault)

\* SaveAssignment.
SaveAssignment(fs, files, ord, fault) ==
  AssignmentLoop(Start(fs, FALSE), ord, 1, files, fault)

Run(cmd, fs, files, ord, fault) ==
  IF cmd = "item" THEN ItemSave(fs, files, ord, fault)
  ELSE SaveAssignment(fs, files, ord, fault)

\* The orders in which a map with the given keys can be iterated.
Orders(keys) ==
  {o \in [1..Cardinality(keys) -> keys] : \A i, j \in 1..Cardinality(keys) :
                                             o[i] = o[j] => i = j}

Mappings == {[n \in keys |-> Remote] : keys \in {k \in SUBSET Names :
                                                   Cardinality(k) <= MaxFiles}}

\* ------------------------------------------------------------------ state
Idle == [cmd |-> "none"]

\* The outcome of a save.  repeat: the command before it was the same save
\* (same function, same failing path if any) and returned no error.  retry:
\* the command before it was a save by the same function that failed at a
\* directory creation or a file write.
SaveRecord(cmd, pre, files, ord, fault, r, repeat, retry) ==
  [cmd |-> cmd, pre |-> pre, files |-> files, ord |-> ord, fault |-> fault,
   err |-> r.err, at |-> r.at, isNew |-> r.isNew, isUpdated |-> r.isUpdated,
   written |-> r.written, skipped |-> r.skipped,
   statFailed |-> r.statFailed, failed |-> r.failed,
   repeat |-> repeat, retry |-> retry]

IsSave == last.cmd \in {"item", "assignment"}

\* Every well-formed disk is an initial state, so a save is checked on every
\* disk an earlier sequence of saves or the user can have left; the server
\* offers the same assignment for the whole run.
Init ==
  /\ disk \in Disks
  /\ server \in Mappings
  /\ last = Idle
  /\ nruns = 0

DoSave(cmd) ==
  /\ nruns < MaxRuns
  /\ \E ord \in Orders(DOMAIN server) : \E fault \in Faults(DOMAIN server) :
       LET r == Run(cmd, disk, server, ord, fault)
       IN  /\ disk' = r.fs
           /\ last' = SaveRecord(cmd, disk, server, ord, fault, r,
                                 /\ last.cmd = cmd
                                 /\ last.fault = fault
                                 /\ last.err = "",
                                 /\ last.cmd = cmd
                                 /\ last.failed # {})
  /\ nruns' = nruns + 1
  /\ UNCHANGED server

DoItemSave == DoSave("item")

DoSaveAssignment == DoSave("assignment")

Next == DoItemSave \/ DoSaveAssignment

Spec == Init /\ [][Next]_vars

\* ---------------------------------------------------------------- strings
Chr_slash == <<"/">>

\* filepath.Separator
Separator == Chr_slash

\* The values of the map testExtensions.
testExtensions ==
  { <<"_", "t", "e", "s", "t", ".", "r", "b">>,
    <<".", "s", "p", "e", "c", ".", "j", "s">>,
    <<"_", "t", "e", "s", "t", ".", "e", "x", "s">>,
    <<"_", "t", "e", "s", "t", ".", "c", "l", "j">>,
    <<"_", "t", "e", "s", "t", ".", "p", "y">>,
    <<"_", "t", "e", "s", "t", ".", "g", "o">>,
    <<"_", "t", "e", "s", "t", ".", "h", "s">>,
    <<"_", "t", "e", "s", "t", ".", "c", "p", "p">> }

\* strings.HasPrefix and strings.HasSuffix
HasPrefix(s, prefix) ==
  Len(s) >= Len(prefix) /\ SubSeq(s, 1, Len(prefix)) = prefix

HasSuffix(s, suffix) ==
  Len(s) >= Len(suffix) /\ SubSeq(s, Len(s) - Len(suffix) + 1, Len(s)) = suffix

\* strings.LastIndex: the 0-based index of the last occurrence, -1 if none.
LastIndex(s, sub) ==
  LET hits == {i \in 0..(Len(s) - Len(sub)) :
                 SubSeq(s, i + 1, i + Len(sub)) = sub}
  IN  IF hits = {} THEN -1 ELSE CHOOSE i \in hits : \A j \in hits : j <= i

IsTest(filename) ==
  \E ext \in testExtensions : LastIndex(filename, ext) > 0

\* ------------------------------------------------------- submit: the input
\* c.Dir, the configured exercise directory.
cDir == <<"/", "e">>

\* A variant of exDir without the separator.
exDirNoSeparator == cDir

\* exDir := c.Dir + string(filepath.Separator)
exDir == cDir \o Separator

\* Directories a resolved path can lie in: the exercise directory, a
\* sibling whose name starts with the same characters, and another place.
Bases == {cDir \o Separator, <<"/", "e", "x", "/">>, <<"/", "o", "/">>}

Stems == {<<>>, <<"b">>, <<"d", "/">>}

Endings == testExtensions \cup {<<".", "p", "y">>}

Tails == {<<>>, <<"~">>}

Relatives == {st \o e \o t : st \in Stems, e \in Endings, t \in Tails}

\* What absolutePath can return without an error.
AbsPaths == {b \o r : b \in Bases, r \in Relatives} \cup {cDir}

\* ----------------------------------------------------------- HTTP replies
StatusCreated == 201

StatusNoContent == 204

Statuses == {200, StatusCreated, StatusNoContent, 404, 422, 500}

\* Response bodies: text that is not JSON, a JSON array, and JSON objects
\* with the fields the client reads.
Bodies ==
  { [json |-> "garbage", ID |-> "", Error |-> ""],
    [json |-> "array", ID |-> "", Error |-> ""],
    [json |-> "object", ID |-> "", Error |-> ""],
    [json |-> "object", ID |-> "42", Error |-> ""],
    [json |-> "object", ID |-> "", Error |-> "bad file"] }

\* How the exchange ends: the request cannot be built, http.Client.Do
\* fails, reading the body fails, or a status and a body arrive.
Replies ==
  { [kind |-> k, status |-> 0, body |-> [json |-> "garbage", ID |-> "", Error |-> ""]] :
      k \in {"badurl", "transport"} }
    \cup { [kind |-> "readerr", status |-> s,
            body |-> [json |-> "garbage", ID |-> "", Error |-> ""]] : s \in Statuses }
    \cup { [kind |-> "reply", status |-> s, body |-> b] :
             s \in Statuses, b \in Bodies }

ZeroResponse == [ID |-> "", Error |-> ""]

NoError == [kind |-> "", status |-> 0, payload |-> ZeroResponse]

Failure(kind) == [kind |-> kind, status |-> 0, payload |-> ZeroResponse]

\* json.Unmarshal into a struct: only a JSON object decodes.
Unmarshal(body) ==
  IF body.json = "object"
  THEN [ok |-> TRUE, v |-> [ID |-> body.ID, Error |-> body.Error]]
  ELSE [ok |-> FALSE, v |-> ZeroResponse]

\* SubmitAssignment: posted tells whether the POST went out.
SubmitAssignment(filePath, code, reply) ==
  LET u == Unmarshal(reply.body)
  IN  IF reply.kind = "badurl"
      THEN [posted |-> FALSE, err |-> Failure("newrequest"), resp |-> ZeroResponse]
      ELSE IF reply.kind = "transport"
      THEN [posted |-> TRUE, err |-> Failure("transport"), resp |-> ZeroResponse]
      ELSE IF reply.kind = "readerr"
      THEN [posted |-> TRUE, err |-> Failure("read"), resp |-> ZeroResponse]
      ELSE IF reply.status # StatusCreated
      THEN IF ~u.ok
           THEN [posted |-> TRUE, err |-> Failure("unmarshal"), resp |-> ZeroResponse]
           ELSE [posted |-> TRUE,
                 err |-> [kind |-> "status", status |-> reply.status, payload |-> u.v],
                 resp |-> ZeroResponse]
      ELSE IF ~u.ok
      THEN [posted |-> TRUE, err |-> Failure("parse"), resp |-> ZeroResponse]
      ELSE [posted |-> TRUE, err |-> NoError, resp |-> u.v]

\* A variant of UnsubmitAssignment that accepts every status below 300.
UnsubmitAssignmentAnyStatusBelow300(reply) ==
  LET u == Unmarshal(reply.body)
  IN  IF reply.kind = "badurl" THEN Failure("newrequest")
      ELSE IF reply.kind = "transport" THEN Failure("transport")
      ELSE IF reply.kind = "readerr" THEN Failure("read")
      ELSE IF reply.status >= 300
      THEN IF ~u.ok THEN Failure("unmarshal")
           ELSE [kind |-> "status", status |-> reply.status,
                 payload |-> [ID |-> "", Error |-> u.v.Error]]
      ELSE NoError

\* UnsubmitAssignment.
UnsubmitAssignment(reply) ==
  LET u == Unmarshal(reply.body)
  IN  IF reply.kind = "badurl" THEN Failure("newrequest")
      ELSE IF reply.kind = "transport" THEN Failure("transport")
      ELSE IF reply.kind = "readerr" THEN Failure("read")
      ELSE IF reply.status # StatusNoContent
      THEN IF ~u.ok THEN Failure("unmarshal")
           ELSE [kind |-> "status", status |-> reply.status,
                 payload |-> [ID |-> "", Error |-> u.v.Error]]
      ELSE NoError

\* The outcome of a submit or unsubmit command: what was printed (out), the
\* resolved path and the path relative to the exercise directory, whether
\* the file was read, whether the POST or DELETE went out and with which
\* path, the reply, and the error and response of the exchange.
NoReply == [kind |-> "none", status |-> 0,
            body |-> [json |-> "garbage", ID |-> "", Error |-> ""]]

NetRecord(cmd, out) ==
  [cmd |-> cmd, out |-> out, absPath |-> <<>>, filename |-> <<>>,
   resolved |-> FALSE, read |-> FALSE, posted |-> FALSE, reqPath |-> <<>>,
   reply |-> NoReply, err |-> NoError, resp |-> ZeroResponse]

\* The early returns common to the two commands: no argument (submit only),
\* an unreadable configuration, no API key.
Preambles == {"noargs", "cfgerr", "unauth"}

\* The action of the submit command.
SubmitCommand(absPath, readOk, reply) ==
  LET filename == SubSeq(absPath, Len(exDir) + 1, Len(absPath))
      r == SubmitAssignment(filename, "code", reply)
      base == [NetRecord("submit", "") EXCEPT !.absPath = absPath,
                                              !.resolved = TRUE]
  IN  IF ~HasPrefix(absPath, exDir) THEN [base EXCEPT !.out = "outside"]
      ELSE IF IsTest(filename)
      THEN [base EXCEPT !.out = "istest", !.filename = filename]
      ELSE IF ~readOk
      THEN [base EXCEPT !.out = "readerr", !.filename = filename]
      ELSE [base EXCEPT !.out = IF r.err.kind = "" THEN "ok" ELSE "issue",
                        !.filename = filename, !.read = TRUE,
                        !.posted = r.posted,
                        !.reqPath = IF r.posted THEN filename ELSE <<>>,
                        !.reply = reply, !.err = r.err, !.resp = r.resp]

\* Whether the command gets as far as the exchange with the server.
Submits(absPath) ==
  HasPrefix(absPath, exDir)
    /\ ~IsTest(SubSeq(absPath, Len(exDir) + 1, Len(absPath)))

DoSubmit ==
  /\ nruns < MaxRuns
  /\ \/ \E pre \in Preambles : last' = NetRecord("submit", pre)
     \/ last' = NetRecord("submit", "notfound")
     \/ \E absPath \in AbsPaths :
          IF Submits(absPath)
          THEN \/ last' = SubmitCommand(absPath, FALSE, NoReply)
               \/ \E reply \in Replies :
                    last' = SubmitCommand(absPath, TRUE, reply)
          ELSE last' = SubmitCommand(absPath, TRUE, NoReply)
  /\ nruns' = nruns + 1
  /\ UNCHANGED <<disk, server>>

\* The action of the unsubmit command.
DoUnsubmit ==
  /\ nruns < MaxRuns
  /\ \/ \E pre \in Preambles \ {"noargs"} : last' = NetRecord("unsubmit", pre)
     \/ \E reply \in Replies :
          LET e == UnsubmitAssignment(reply)
          IN  last' = [NetRecord("unsubmit",
                                 IF e.kind = "" THEN "ok" ELSE "issue")
                         EXCEPT !.posted = reply.kind # "badurl",
                                !.reply = reply, !.err = e]
  /\ nruns' = nruns + 1
  /\ UNCHANGED <<disk, server>>

\* ----------------------------------------------------- claims on the save
\* C1: a file that exists before a save (Item.Save or SaveAssignment) has
\* the same content after it, whether the save returns an error or not and
\* whatever the remote text is, also when the save follows another save.
C1_NoOverwrite ==
  IsSave => \A p \in Paths : IsFile(last.pre[p]) => disk[p] = last.pre[p]

\* A second save in a row met a locally edited file of its mapping, left it
\* alone and wrote another file.
C1_Witness ==
  /\ IsSave
  /\ nruns = 2
  /\ last.written # {}
  /\ \E n \in DOMAIN last.files : last.pre[n] = "L" /\ disk[n] = "L"

C8_NoSwallowedError ==
  IsSave => (last.failed \cup last.statFailed # {} => last.err # "")

\* C9, the state after a save: when creating a directory or writing a file
\* failed, the save returned that error at that file, the files after it in
\* the iteration were not written, and the files written before it hold the
\* remote text.
C9_Abort ==
  (IsSave /\ last.failed # {}) =>
     /\ last.err \in {"mkdir", "write"}
     /\ last.at \in 1..Len(last.ord)
     /\ last.failed = {last.ord[last.at]}
     /\ last.written \subseteq {last.ord[j] : j \in 1..(last.at - 1)}
     /\ \A j \in (last.at + 1)..Len(last.ord) :
          /\ last.ord[j] \notin last.written
          /\ IsFile(disk[last.ord[j]]) =>
               disk[last.ord[j]] = last.pre[last.ord[j]]
     /\ \A n \in last.written : disk[n] = last.files[n]

\* C9: C9_Abort holds after every step, and a save of the same mapping that
\* follows the failed one writes only files that were missing and leaves
\* the files the failed save wrote as they are.
C9_AbortNoRollback ==
  [][ /\ C9_Abort'
      /\ (IsSave /\ last.failed # {} /\ last'.cmd = last.cmd) =>
           /\ last'.written \subseteq {n \in Names : disk[n] = "-"}
           /\ \A n \in last.written : disk'[n] = last.files[n] ]_vars

\* A retry after a save that wrote one file and failed at the next: the
\* retry skipped the file written before and wrote the missing one.
C9_Witness ==
  /\ IsSave
  /\ last.retry
  /\ last.err = ""
  /\ \E n \in last.skipped : last.pre[n] = Remote
  /\ last.written # {}

\* What C10 compares: the disk, whether an error is returned, the flags.
Outcome(r) ==
  [fs |-> r.fs, failed |-> r.err # "", isNew |-> r.isNew,
   isUpdated |-> r.isUpdated]

LastOutcome ==
  [fs |-> disk, failed |-> last.err # "", isNew |-> last.isNew,
   isUpdated |-> last.isUpdated]

SameInEveryOrder ==
  \A o \in Orders(DOMAIN last.files) :
     Outcome(Run(last.cmd, last.pre, last.files, o, last.fault)) = LastOutcome

\* One key of the mapping is a directory above another one.
PrefixPair(keys) ==
  \E m, n \in keys : Len(m) < Len(n) /\ SubSeq(n, 1, Len(m)) = m

InitNet ==
  /\ disk = [p \in Paths |-> "-"]
  /\ server = <<>>
  /\ last = Idle
  /\ nruns = 0

NextNet == DoSubmit \/ DoUnsubmit

SpecNet == InitNet /\ [][NextNet]_vars

\* ------------------------------------- claims on submit and unsubmit
\* The path of a resolved file relative to the exercise directory.
RelativePath(absPath) ==
  SubSeq(absPath, Len(cDir) + Len(Separator) + 1, Len(absPath))

InsideProject(absPath) == HasPrefix(absPath, cDir \o Separator)

EndsInTestSuffix(filename) ==
  \E ext \in testExtensions : HasSuffix(filename, ext)

\* C4: a submit whose path relative to the exercise directory ends in one of
\* the test suffixes reports the test-file error and sends no POST.
C4_TestFileRejected ==
  (/\ last.cmd = "submit"
   /\ last.resolved
   /\ InsideProject(last.absPath)
   /\ EndsInTestSuffix(RelativePath(last.absPath))) =>
     last.out = "istest" /\ ~last.posted

\* C5: a submit whose resolved path does not start with the exercise
\* directory followed by the separator reports the outside-project error,
\* reads no file and sends no POST; a POST carries the resolved path without
\* that prefix.
C5_OutsideProjectRejected ==
  last.cmd = "submit" =>
     /\ (last.resolved /\ ~InsideProject(last.absPath)) =>
          last.out = "outside" /\ ~last.read /\ ~last.posted
     /\ last.posted =>
          /\ last.resolved
          /\ last.absPath = cDir \o Separator \o last.reqPath

\* A path in a directory whose name starts like the exercise directory was
\* rejected.
C5_Witness ==
  /\ last.cmd = "submit"
  /\ last.out = "outside"
  /\ HasPrefix(last.absPath, cDir)
  /\ Len(last.absPath) > Len(cDir)

\* C6: once the body of the reply is read, SubmitAssignment returns a
\* response and no error exactly when the status is 201 and the body
\* decodes; for every other status, whatever the body, the error carries the
\* status code and the decoded payload; a 201 body that does not decode
\* gives the parse error.
C6_SubmitStatusMapping ==
  (last.cmd = "submit" /\ last.reply.kind = "reply") =>
     LET u == Unmarshal(last.reply.body)
     IN  /\ last.err.kind = "" <=>
              (last.reply.status = StatusCreated /\ u.ok)
         /\ last.reply.status # StatusCreated =>
              /\ last.err.kind = "status"
              /\ last.err.status = last.reply.status
              /\ last.err.payload = u.v
         /\ (last.reply.status = StatusCreated /\ ~u.ok) =>
              last.err.kind = "parse"

\* C7: once the body of the reply is read, UnsubmitAssignment returns no
\* error exactly when the status is 204; for another status the error
\* carries the status code and the server's message when the body decodes
\* and is the decoding error when it does not; the command reports success
\* only for a 204.
C7_UnsubmitStatusMapping ==
  last.cmd = "unsubmit" =>
     LET u == Unmarshal(last.reply.body)
     IN  /\ last.reply.kind = "reply" =>
              /\ last.err.kind = "" <=> last.reply.status = StatusNoContent
              /\ (last.reply.status # StatusNoContent /\ u.ok) =>
                   /\ last.err.kind = "status"
                   /\ last.err.status = last.reply.status
                   /\ last.err.payload.Error = last.reply.body.Error
              /\ (last.reply.status # StatusNoContent /\ ~u.ok) =>
                   last.err.kind = "unmarshal"
         /\ last.out = "ok" =>
              /\ last.reply.kind = "reply"
              /\ last.reply.status = StatusNoContent

\* An unsubmit answered by a 2xx status other than 204 with an error object.
C7_Witness ==
  /\ last.cmd = "unsubmit"
  /\ last.reply.kind = "reply"
  /\ last.reply.status = 200
  /\ last.err.kind = "status"
  /\ last.err.payload.Error = "bad file"

====
